---- MODULE Spec2Model ----
(***************************************************************************)
(* A model of the Synacor virtual machine of this repository: the memory   *)
(* (mem.rs), the CPU with its fetch/decode/execute step (cpu.rs), the      *)
(* stepping controller (vm.rs) and the command loop of the shell (main.rs).*)
(***************************************************************************)
EXTENDS Integers, Sequences, FiniteSets, TLC

VARIABLES
    memory,           \* Memory.memory: the nonzero cells, address -> word
    registers,        \* CPU.registers
    stack,            \* CPU.stack, the top is the last element
    current_address,  \* CPU.current_address, the program counter
    output,           \* the bytes written to standard output by `out`
    result,           \* what the last CPU::execute returned, and who asked
    pre,              \* the machine as it was before the last execute
    shell,            \* where main is: new, prompt, run, until, exited, aborted
    target,           \* the argument of the run_until in progress
    exit_code         \* <<>> while the process lives, <<code>> afterwards

vars == <<memory, registers, stack, current_address, output, result, pre,
          shell, target, exit_code>>

(***************************************************************************)
(* Program constants.                                                      *)
(***************************************************************************)
MAX_ADDRESS == 32768
MAX_REGISTERS == 8
U16Modulus == 65536
Mask15 == 32767

(***************************************************************************)
(* Bounds of the model.                                                    *)
(***************************************************************************)
MaxStack == 4
MaxOut == 4
MaxBytes == 4

(***************************************************************************)
(* 16-bit word arithmetic.                                                 *)
(***************************************************************************)
RECURSIVE BitAnd(_, _)
BitAnd(x, y) ==
    IF x = 0 \/ y = 0 THEN 0
    ELSE (x % 2) * (y % 2) + 2 * BitAnd(x \div 2, y \div 2)

RECURSIVE BitOr(_, _)
BitOr(x, y) ==
    IF x = 0 THEN y
    ELSE IF y = 0 THEN x
    ELSE (IF x % 2 = 1 \/ y % 2 = 1 THEN 1 ELSE 0) + 2 * BitOr(x \div 2, y \div 2)

BitNot(x) == (U16Modulus - 1) - x

wrapping_add(x, y) == (x + y) % U16Modulus

\* (x * y) mod 2^16, multiplied byte by byte of x so that no intermediate
\* product exceeds 32 bits
wrapping_mul(x, y) ==
    ((((x \div 256) * y) % 256) * 256 + (x % 256) * y) % U16Modulus

(***************************************************************************)
(* Option and Result values, and the errors of cpu.rs.                     *)
(***************************************************************************)
Some(v) == [some |-> TRUE, val |-> v]
None == [some |-> FALSE, val |-> 0]

NoError == [kind |-> "None", arg |-> 0, address |-> 0]
OverflowAddress(a) == [kind |-> "OverflowAddress", arg |-> a, address |-> 0]
OverflowRegister(n) == [kind |-> "OverflowRegister", arg |-> n, address |-> 0]
PopFromEmptyStack == [kind |-> "PopFromEmptyStack", arg |-> 0, address |-> 0]
UnknownOpCode(op, a) == [kind |-> "UnknownOpCode", arg |-> op, address |-> a]
DataIsTooLarge(n) == [kind |-> "DataIsTooLarge", arg |-> n, address |-> 0]

Ok(v) == [ok |-> TRUE, val |-> v, err |-> NoError]
Err(e) == [ok |-> FALSE, val |-> 0, err |-> e]

(***************************************************************************)
(* Memory (mem.rs).  The array of MAX_ADDRESS words is kept as the function *)
(* of its nonzero cells; every other cell reads 0.                          *)
(***************************************************************************)
EmptyMemory == [a \in {} |-> 0]

Cell(mem, a) == IF a \in DOMAIN mem THEN mem[a] ELSE 0

PutCell(mem, a, v) ==
    LET dom == IF v = 0 THEN DOMAIN mem \ {a} ELSE DOMAIN mem \cup {a}
    IN  [x \in dom |-> IF x = a THEN v ELSE mem[x]]

\* load_data that clears the cells behind the loaded words
load_data_clearing(mem, data) ==
    IF Len(data) > MAX_ADDRESS
    THEN [ok |-> FALSE, err |-> DataIsTooLarge(Len(data)), memory |-> mem]
    ELSE LET idx == {i \in 0 .. Len(data) - 1 : data[i + 1] # 0}
         IN  [ok |-> TRUE, err |-> NoError,
              memory |-> [a \in idx |-> data[a + 1]]]

load_data(mem, data) ==
    IF Len(data) > MAX_ADDRESS
    THEN [ok |-> FALSE, err |-> DataIsTooLarge(Len(data)), memory |-> mem]
    ELSE LET idx == {i \in 0 .. Len(data) - 1 : data[i + 1] # 0}
             keep == {a \in DOMAIN mem : a >= Len(data)}
         IN  [ok |-> TRUE, err |-> NoError,
              memory |-> [a \in idx \cup keep |->
                             IF a < Len(data) THEN data[a + 1] ELSE mem[a]]]

read_memory(mem, address) ==
    IF address <= 32767 THEN Some(Cell(mem, address)) ELSE None

write_memory(mem, address, value) ==
    IF address <= 32767 /\ address < MAX_ADDRESS
    THEN [ok |-> TRUE, val |-> Cell(mem, address), memory |-> PutCell(mem, address, value)]
    ELSE [ok |-> FALSE, val |-> 0, memory |-> mem]

get_registry_from_address(address) ==
    IF address >= MAX_ADDRESS /\ address - MAX_ADDRESS < MAX_REGISTERS
    THEN Some(address - MAX_ADDRESS)
    ELSE None

(***************************************************************************)
(* The machine: what CPU and Memory hold together.                         *)
(***************************************************************************)
Machine ==
    [memory |-> memory, registers |-> registers, stack |-> stack,
     current_address |-> current_address, output |-> output]

NewMachine ==
    [memory |-> EmptyMemory,
     registers |-> [n \in 0 .. MAX_REGISTERS - 1 |-> 0],
     stack |-> <<>>,
     current_address |-> 0,
     output |-> <<>>]

read_register(m, number) ==
    IF number <= 7 THEN Some(m.registers[number]) ELSE None

write_register(m, number, value) ==
    IF number <= 7
    THEN [ok |-> TRUE, val |-> m.registers[number], err |-> NoError,
          m |-> [m EXCEPT !.registers[number] = value]]
    ELSE [ok |-> FALSE, val |-> 0, err |-> OverflowRegister(number), m |-> m]

\* a fetch that masks the address to 15 bits instead of checking its range
get_value_masking(m, address) == Ok(Cell(m.memory, address % MAX_ADDRESS))

get_value_from_address(m, address) ==
    IF address <= 32767
    THEN LET r == read_memory(m.memory, address)
         IN  IF r.some THEN Ok(r.val) ELSE Err(OverflowAddress(address))
    ELSE IF address <= 32775
    THEN LET reg_num == get_registry_from_address(address)
         IN  IF ~reg_num.some THEN Err(OverflowAddress(address))
             ELSE LET r == read_register(m, reg_num.val)
                  IN  IF r.some THEN Ok(r.val) ELSE Err(OverflowRegister(reg_num.val))
    ELSE Err(OverflowAddress(address))

\* set_value_in_address that returns the value written, not the old one
set_value_returning_new(m, address, value) ==
    IF address <= 32767
    THEN [ok |-> TRUE, val |-> value, err |-> NoError,
          m |-> [m EXCEPT !.memory = write_memory(m.memory, address, value).memory]]
    ELSE IF address <= 32775
    THEN [ok |-> TRUE, val |-> value, err |-> NoError,
          m |-> [m EXCEPT !.registers[address - MAX_ADDRESS] = value]]
    ELSE [ok |-> FALSE, val |-> 0, err |-> OverflowAddress(address), m |-> m]

set_value_in_address(m, address, value) ==
    IF address <= 32767
    THEN LET w == write_memory(m.memory, address, value)
         IN  IF w.ok
             THEN [ok |-> TRUE, val |-> w.val, err |-> NoError,
                   m |-> [m EXCEPT !.memory = w.memory]]
             ELSE [ok |-> FALSE, val |-> 0, err |-> OverflowAddress(address), m |-> m]
    ELSE IF address <= 32775
    THEN LET reg_num == get_registry_from_address(address)
         IN  IF ~reg_num.some
             THEN [ok |-> FALSE, val |-> 0, err |-> OverflowAddress(address), m |-> m]
             ELSE write_register(m, reg_num.val, value)
    ELSE [ok |-> FALSE, val |-> 0, err |-> OverflowAddress(address), m |-> m]

\* from_raw_to_u16 that reads memory for a literal, as get_value_from_address does
from_raw_reading_memory(m, raw) == get_value_from_address(m, raw)

from_raw_to_u16(m, raw) ==
    IF raw <= 32767 THEN Ok(raw)
    ELSE IF raw <= 32775
    THEN LET reg_num == get_registry_from_address(raw)
         IN  IF ~reg_num.some THEN Err(OverflowAddress(raw))
             ELSE LET r == read_register(m, reg_num.val)
                  IN  IF r.some THEN Ok(r.val) ELSE Err(OverflowRegister(reg_num.val))
    ELSE Err(OverflowAddress(raw))

(***************************************************************************)
(* ExecutionResult and what an opcode handler returns: the handler's       *)
(* Result, and the machine as the handler left it (a handler that fails    *)
(* may already have changed it).  panic marks a host trap.                 *)
(***************************************************************************)
Stop == [tag |-> "Stop", arg |-> 0]
Jump(address) == [tag |-> "Jump", arg |-> address]
Next_(size) == [tag |-> "Next", arg |-> size]

HandlerOk(er, m) == [ok |-> TRUE, panic |-> FALSE, err |-> NoError, er |-> er, m |-> m]
HandlerErr(e, m) == [ok |-> FALSE, panic |-> FALSE, err |-> e, er |-> Stop, m |-> m]
HandlerPanic(m) == [ok |-> FALSE, panic |-> TRUE, err |-> NoError, er |-> Stop, m |-> m]

\* self.set_value_in_address(raw_a, value)?; Ok(ExecutionResult::Next(size))
StoreAndAdvance(m, raw_a, value, size) ==
    LET w == set_value_in_address(m, raw_a, value)
    IN  IF w.ok THEN HandlerOk(Next_(size), w.m) ELSE HandlerErr(w.err, m)

\* let b = self.from_raw_to_u16(raw_b)?; let c = self.from_raw_to_u16(raw_c)?;
ResolvePair(m, raw_b, raw_c) ==
    LET b == from_raw_to_u16(m, raw_b)
        c == from_raw_to_u16(m, raw_c)
    IN  IF ~b.ok THEN [ok |-> FALSE, err |-> b.err, b |-> 0, c |-> 0]
        ELSE IF ~c.ok THEN [ok |-> FALSE, err |-> c.err, b |-> 0, c |-> 0]
        ELSE [ok |-> TRUE, err |-> NoError, b |-> b.val, c |-> c.val]

halt(m) == HandlerOk(Stop, m)

set(m, raw_a, raw_b) ==
    LET b == from_raw_to_u16(m, raw_b)
    IN  IF ~b.ok THEN HandlerErr(b.err, m)
        ELSE StoreAndAdvance(m, raw_a, b.val, 3)

\* push that inserts at the bottom of the stack
push_front(m, raw_a) ==
    LET a == from_raw_to_u16(m, raw_a)
    IN  IF ~a.ok THEN HandlerErr(a.err, m)
        ELSE HandlerOk(Next_(2), [m EXCEPT !.stack = <<a.val>> \o @])

push(m, raw_a) ==
    LET a == from_raw_to_u16(m, raw_a)
    IN  IF ~a.ok THEN HandlerErr(a.err, m)
        ELSE HandlerOk(Next_(2), [m EXCEPT !.stack = Append(@, a.val)])

\* pop that reads the top element and leaves it on the stack
pop_keep(m, raw_a) ==
    IF m.stack # <<>>
    THEN LET w == set_value_in_address(m, raw_a, m.stack[Len(m.stack)])
         IN  IF w.ok THEN HandlerOk(Next_(2), w.m) ELSE HandlerErr(w.err, m)
    ELSE HandlerErr(PopFromEmptyStack, m)

pop(m, raw_a) ==
    IF m.stack # <<>>
    THEN LET value == m.stack[Len(m.stack)]
             popped == [m EXCEPT !.stack = SubSeq(@, 1, Len(@) - 1)]
             w == set_value_in_address(popped, raw_a, value)
         IN  IF w.ok THEN HandlerOk(Next_(2), w.m) ELSE HandlerErr(w.err, popped)
    ELSE HandlerErr(PopFromEmptyStack, m)

eq(m, raw_a, raw_b, raw_c) ==
    LET p == ResolvePair(m, raw_b, raw_c)
    IN  IF ~p.ok THEN HandlerErr(p.err, m)
        ELSE StoreAndAdvance(m, raw_a, IF p.b = p.c THEN 1 ELSE 0, 4)

gt(m, raw_a, raw_b, raw_c) ==
    LET p == ResolvePair(m, raw_b, raw_c)
    IN  IF ~p.ok THEN HandlerErr(p.err, m)
        ELSE StoreAndAdvance(m, raw_a, IF p.b > p.c THEN 1 ELSE 0, 4)

jmp(m, raw_a) ==
    LET a == from_raw_to_u16(m, raw_a)
    IN  IF ~a.ok THEN HandlerErr(a.err, m) ELSE HandlerOk(Jump(a.val), m)

\* jt with the test of jf
jt_zero(m, raw_a, raw_b) ==
    LET a == from_raw_to_u16(m, raw_a)
        b == from_raw_to_u16(m, raw_b)
    IN  IF ~a.ok THEN HandlerErr(a.err, m)
        ELSE IF ~b.ok THEN HandlerErr(b.err, m)
        ELSE HandlerOk(IF a.val = 0 THEN Jump(b.val) ELSE Next_(3), m)

jt(m, raw_a, raw_b) ==
    LET a == from_raw_to_u16(m, raw_a)
        b == from_raw_to_u16(m, raw_b)
    IN  IF ~a.ok THEN HandlerErr(a.err, m)
        ELSE IF ~b.ok THEN HandlerErr(b.err, m)
        ELSE HandlerOk(IF a.val # 0 THEN Jump(b.val) ELSE Next_(3), m)

\* jf with the test of jt
jf_nonzero(m, raw_a, raw_b) ==
    LET a == from_raw_to_u16(m, raw_a)
        b == from_raw_to_u16(m, raw_b)
    IN  IF ~a.ok THEN HandlerErr(a.err, m)
        ELSE IF ~b.ok THEN HandlerErr(b.err, m)
        ELSE HandlerOk(IF a.val # 0 THEN Jump(b.val) ELSE Next_(3), m)

jf(m, raw_a, raw_b) ==
    LET a == from_raw_to_u16(m, raw_a)
        b == from_raw_to_u16(m, raw_b)
    IN  IF ~a.ok THEN HandlerErr(a.err, m)
        ELSE IF ~b.ok THEN HandlerErr(b.err, m)
        ELSE HandlerOk(IF a.val = 0 THEN Jump(b.val) ELSE Next_(3), m)

\* add without the 15-bit mask
add_unmasked(m, raw_a, raw_b, raw_c) ==
    LET p == ResolvePair(m, raw_b, raw_c)
    IN  IF ~p.ok THEN HandlerErr(p.err, m)
        ELSE StoreAndAdvance(m, raw_a, wrapping_add(p.b, p.c), 4)

add(m, raw_a, raw_b, raw_c) ==
    LET p == ResolvePair(m, raw_b, raw_c)
    IN  IF ~p.ok THEN HandlerErr(p.err, m)
        ELSE StoreAndAdvance(m, raw_a, BitAnd(wrapping_add(p.b, p.c), Mask15), 4)

\* mult that reduces with % 0x7FFF instead of & 0x7FFF
mult_rem(m, raw_a, raw_b, raw_c) ==
    LET p == ResolvePair(m, raw_b, raw_c)
    IN  IF ~p.ok THEN HandlerErr(p.err, m)
        ELSE StoreAndAdvance(m, raw_a, wrapping_mul(p.b, p.c) % Mask15, 4)

mult(m, raw_a, raw_b, raw_c) ==
    LET p == ResolvePair(m, raw_b, raw_c)
    IN  IF ~p.ok THEN HandlerErr(p.err, m)
        ELSE StoreAndAdvance(m, raw_a, BitAnd(wrapping_mul(p.b, p.c), Mask15), 4)

\* b and c are the raw operand words: modulo never calls from_raw_to_u16.
\* wrapping_rem panics when the divisor is 0.
modulo(m, raw_a, b, c) ==
    IF c = 0 THEN HandlerPanic(m)
    ELSE StoreAndAdvance(m, raw_a, b % c, 4)

and(m, raw_a, raw_b, raw_c) ==
    LET p == ResolvePair(m, raw_b, raw_c)
    IN  IF ~p.ok THEN HandlerErr(p.err, m)
        ELSE StoreAndAdvance(m, raw_a, BitAnd(p.b, p.c), 4)

or(m, raw_a, raw_b, raw_c) ==
    LET p == ResolvePair(m, raw_b, raw_c)
    IN  IF ~p.ok THEN HandlerErr(p.err, m)
        ELSE StoreAndAdvance(m, raw_a, BitOr(p.b, p.c), 4)

not(m, raw_a, raw_b) ==
    LET b == from_raw_to_u16(m, raw_b)
    IN  IF ~b.ok THEN HandlerErr(b.err, m)
        ELSE StoreAndAdvance(m, raw_a, BitAnd(BitNot(b.val), Mask15), 3)

rmem(m, raw_a, raw_b) ==
    LET b == from_raw_to_u16(m, raw_b)
    IN  IF ~b.ok THEN HandlerErr(b.err, m)
        ELSE LET value == get_value_from_address(m, b.val)
             IN  IF ~value.ok THEN HandlerErr(value.err, m)
                 ELSE StoreAndAdvance(m, raw_a, value.val, 3)

\* wmem that stores the raw b before it resolves it
wmem_storing_first(m, raw_a, raw_b) ==
    LET a == from_raw_to_u16(m, raw_a)
        w == set_value_in_address(m, a.val, raw_b)
        b == from_raw_to_u16(m, raw_b)
    IN  IF ~a.ok THEN HandlerErr(a.err, m)
        ELSE IF ~w.ok THEN HandlerErr(w.err, m)
        ELSE IF ~b.ok THEN HandlerErr(b.err, w.m)
        ELSE StoreAndAdvance(m, a.val, b.val, 3)

\* wmem that resolves its operands and stores nothing
wmem_dropping(m, raw_a, raw_b) ==
    LET a == from_raw_to_u16(m, raw_a)
        b == from_raw_to_u16(m, raw_b)
    IN  IF ~a.ok THEN HandlerErr(a.err, m)
        ELSE IF ~b.ok THEN HandlerErr(b.err, m)
        ELSE HandlerOk(Next_(3), m)

wmem(m, raw_a, raw_b) ==
    LET a == from_raw_to_u16(m, raw_a)
        b == from_raw_to_u16(m, raw_b)
    IN  IF ~a.ok THEN HandlerErr(a.err, m)
        ELSE IF ~b.ok THEN HandlerErr(b.err, m)
        ELSE StoreAndAdvance(m, a.val, b.val, 3)

\* call that pushes its own address instead of the next instruction's
call_pushing_pc(m, raw_a) ==
    LET a == from_raw_to_u16(m, raw_a)
    IN  IF ~a.ok THEN HandlerErr(a.err, m)
        ELSE HandlerOk(Jump(a.val), [m EXCEPT !.stack = Append(@, m.current_address)])

call(m, raw_a) ==
    LET a == from_raw_to_u16(m, raw_a)
    IN  IF ~a.ok THEN HandlerErr(a.err, m)
        ELSE HandlerOk(Jump(a.val),
                       [m EXCEPT !.stack = Append(@, (m.current_address + 2) % U16Modulus)])

\* ret that treats an empty stack as an error, as pop does
ret_strict(m) ==
    IF m.stack # <<>>
    THEN HandlerOk(Jump(m.stack[Len(m.stack)]),
                   [m EXCEPT !.stack = SubSeq(@, 1, Len(@) - 1)])
    ELSE HandlerErr(PopFromEmptyStack, m)

ret(m) ==
    IF m.stack # <<>>
    THEN HandlerOk(Jump(m.stack[Len(m.stack)]),
                   [m EXCEPT !.stack = SubSeq(@, 1, Len(@) - 1)])
    ELSE HandlerOk(Stop, m)

\* print!("{}", ch) of a char: the UTF-8 bytes of the code point ch < 256
encode_utf8(ch) ==
    IF ch < 128 THEN <<ch>> ELSE <<192 + (ch \div 64), 128 + (ch % 64)>>

\* the operand word itself is cast, (a as u8) as char: out never calls
\* from_raw_to_u16
out(m, a) ==
    HandlerOk(Next_(2), [m EXCEPT !.output = @ \o encode_utf8(a % 256)])

noop(m) == HandlerOk(Next_(1), m)

(***************************************************************************)
(* CPU::execute: one step of fetch, decode, dispatch.                      *)
(***************************************************************************)
\* every step unwraps all three operand Results, whatever the opcode
ConsumedAll(op_code) == 3

\* how many of the operand Results a, b, c the match arm of op_code unwraps
Consumed(op_code) ==
    IF op_code \in {2, 3, 6, 17, 19} THEN 1
    ELSE IF op_code \in {1, 7, 8, 14, 15, 16} THEN 2
    ELSE IF op_code \in {4, 5, 9, 10, 11, 12, 13} THEN 3
    ELSE 0

\* an unknown opcode is skipped like a noop
UnknownArm_skip(m, op_code) == HandlerOk(Next_(1), m)

\* the arm `_ => Err(CPUError::UnknownOpCode { opcode, address })`
UnknownArm(m, op_code) ==
    HandlerErr(UnknownOpCode(op_code, m.current_address), m)

Dispatch(m, op_code, a, b, c) ==
    CASE op_code = 0 -> halt(m)
      [] op_code = 1 -> set(m, a, b)
      [] op_code = 2 -> push(m, a)
      [] op_code = 3 -> pop(m, a)
      [] op_code = 4 -> eq(m, a, b, c)
      [] op_code = 5 -> gt(m, a, b, c)
      [] op_code = 6 -> jmp(m, a)
      [] op_code = 7 -> jt(m, a, b)
      [] op_code = 8 -> jf(m, a, b)
      [] op_code = 9 -> add(m, a, b, c)
      [] op_code = 10 -> mult(m, a, b, c)
      [] op_code = 11 -> modulo(m, a, b, c)
      [] op_code = 12 -> and(m, a, b, c)
      [] op_code = 13 -> or(m, a, b, c)
      [] op_code = 14 -> not(m, a, b)
      [] op_code = 15 -> rmem(m, a, b)
      [] op_code = 16 -> wmem(m, a, b)
      [] op_code = 17 -> call(m, a)
      [] op_code = 18 -> ret(m)
      [] op_code = 19 -> out(m, a)
      [] op_code = 21 -> noop(m)
      [] OTHER -> UnknownArm(m, op_code)

\* What execute returns and the machine it leaves.  status is Continue for
\* Ok(false), Halted for Ok(true), Error for Err(err), Panic for a host trap.
\* src tells where an Err came from: the opcode fetch, the `?` on operand
\* a, b or c, or the handler.  overflow tells that a u16 addition on the PC
\* exceeded 65535 (a trap in a debug build, a wrap in a release build).
Executed(status, err, src, op_code, overflow, m) ==
    [status |-> status, err |-> err, src |-> src, op_code |-> op_code,
     overflow |-> overflow, m |-> m]

\* the one element of a singleton set
The(S) == CHOOSE x \in S : TRUE

\* Stop that steps over the halting instruction before returning Ok(true)
Finish_halt_advancing(m, op_code, h) ==
    IF h.panic THEN Executed("Panic", NoError, "handler", op_code, FALSE, h.m)
    ELSE IF ~h.ok THEN Executed("Error", h.err, "handler", op_code, FALSE, h.m)
    ELSE IF h.er.tag = "Stop"
    THEN Executed("Halted", NoError, "none", op_code, FALSE,
                  [h.m EXCEPT !.current_address = (@ + 1) % U16Modulus])
    ELSE IF h.er.tag = "Jump"
    THEN Executed("Continue", NoError, "none", op_code, FALSE,
                  [h.m EXCEPT !.current_address = h.er.arg])
    ELSE Executed("Continue", NoError, "none", op_code, FALSE,
                  [h.m EXCEPT !.current_address = (@ + h.er.arg) % U16Modulus])

\* `self.current_address = size` for `self.current_address += size`
Finish_assigning(m, op_code, h) ==
    IF h.panic THEN Executed("Panic", NoError, "handler", op_code, FALSE, h.m)
    ELSE IF ~h.ok THEN Executed("Error", h.err, "handler", op_code, FALSE, h.m)
    ELSE IF h.er.tag = "Stop"
    THEN Executed("Halted", NoError, "none", op_code, FALSE, h.m)
    ELSE Executed("Continue", NoError, "none", op_code, FALSE,
                  [h.m EXCEPT !.current_address = h.er.arg])

Finish(m, op_code, h) ==
    IF h.panic THEN Executed("Panic", NoError, "handler", op_code, FALSE, h.m)
    ELSE IF ~h.ok THEN Executed("Error", h.err, "handler", op_code, FALSE, h.m)
    ELSE IF h.er.tag = "Stop"
    THEN Executed("Halted", NoError, "none", op_code, FALSE, h.m)
    ELSE IF h.er.tag = "Jump"
    THEN Executed("Continue", NoError, "none", op_code,
                  op_code = 17 /\ m.current_address + 2 >= U16Modulus,
                  [h.m EXCEPT !.current_address = h.er.arg])
    ELSE Executed("Continue", NoError, "none", op_code,
                  m.current_address + h.er.arg >= U16Modulus,
                  [h.m EXCEPT !.current_address = (@ + h.er.arg) % U16Modulus])

execute(m) ==
    LET pc == m.current_address
        op_code == get_value_from_address(m, pc)
    IN  IF ~op_code.ok
        THEN Executed("Error", op_code.err, "opcode", -1, FALSE, m)
        ELSE LET a == get_value_from_address(m, (pc + 1) % U16Modulus)
                 b == get_value_from_address(m, (pc + 2) % U16Modulus)
                 c == get_value_from_address(m, (pc + 3) % U16Modulus)
                 k == Consumed(op_code.val)
                 ovf == pc + 3 >= U16Modulus
             IN  IF k >= 1 /\ ~a.ok
                 THEN Executed("Error", a.err, "a", op_code.val, ovf, m)
                 ELSE IF k >= 2 /\ ~b.ok
                 THEN Executed("Error", b.err, "b", op_code.val, ovf, m)
                 ELSE IF k >= 3 /\ ~c.ok
                 THEN Executed("Error", c.err, "c", op_code.val, ovf, m)
                 ELSE The({[Finish(m, op_code.val, h) EXCEPT !.overflow = @ \/ ovf] :
                              h \in {Dispatch(m, op_code.val, a.val, b.val, c.val)}})

(***************************************************************************)
(* The inputs: the program images the loader is given, the registers a     *)
(* harness presets, the targets of `until`.                                *)
(***************************************************************************)
SrcWords == {0, 1, 32767, 32769, 32776}
DstWords == {5, 32768, 32776}

Instructions ==
    {<<op>> : op \in {0, 18, 20, 21, 22}}
    \cup {<<op, a>> : op \in {2, 6, 17, 19}, a \in SrcWords}
    \cup {<<3, a>> : a \in DstWords}
    \cup {<<op, a, b>> : op \in {1, 14, 15}, a \in DstWords, b \in SrcWords}
    \cup {<<op, a, b>> : op \in {7, 8, 16}, a \in SrcWords, b \in SrcWords}
    \cup {<<op, a, b, c>> : op \in {4, 5, 9, 10, 11, 12, 13},
                            a \in DstWords, b \in SrcWords, c \in SrcWords}

S1 == <<9, 32768, 32769, 4, 19, 32768, 0>>
S2 == <<19, 72, 19, 105, 19, 10, 0>>
S3 == <<7, 1, 6, 0, 19, 89, 0, 19, 78, 0>>
S4 == <<17, 5, 19, 33, 0, 19, 72, 18>>
S5 == <<2, 10, 2, 20, 2, 30, 3, 32768, 3, 32769, 3, 32770, 0>>
S6 == <<9, 32768, 32767, 1, 10, 32769, 32767, 32767, 14, 32770, 0, 0>>

\* wmem 3 0; noop: the noop at 3 is overwritten by a halt before it is reached
SelfModifying == <<16, 3, 0, 21>>
\* wmem 10 77; rmem r0 10; halt
StoreThenLoad == <<16, 10, 77, 15, 32768, 10, 0>>
\* wmem 4 72; out <the word at 4>; halt
StoreThenOperand == <<16, 4, 72, 19, 0, 0>>

\* rmem r0 5; jmp r0: the PC becomes 65535
JumpToTop == <<15, 32768, 5, 6, 32768, 65535>>

Scenarios ==
    {S1, S2, S3, S4, S5, S6,
     <<>>,                              \* challenge.bin could not be read
     <<2, 10, 18>>,                     \* ret with a return address
     <<17, 3, 0, 18>>,                  \* call 3; halt; ret
     \* set r7 21; rmem r0 1; jmp r0: a noop fetched from register 7
     <<1, 32775, 21, 15, 32768, 1, 6, 32768>>,
     <<16, 32767, 21, 6, 32767>>,       \* noop in the last memory cell
     <<16, 32767, 18, 6, 32767>>,       \* ret in the last memory cell
     \* set r7 22; rmem r0 1; jmp r0: an unknown opcode fetched from register 7
     <<1, 32775, 22, 15, 32768, 1, 6, 32768>>,
     <<11, 32768, 32769, 3>>,           \* mod r0, r1, 3
     SelfModifying, StoreThenLoad, StoreThenOperand, JumpToTop}
    \cup {<<2, 10, 3, a>> : a \in DstWords}

TooLarge == [i \in 1 .. MAX_ADDRESS + 1 |-> 1]

Images == Instructions \cup Scenarios \cup {TooLarge}

SetupWrites == {<<1, 1>>, <<1, 65>>}

UntilTargets == {2, 4}

(***************************************************************************)
(* The state after construction: VirtualMachine::default().                *)
(***************************************************************************)
NoResult ==
    [status |-> "None", err |-> NoError, src |-> "none", op_code |-> -1,
     overflow |-> FALSE, by |-> "none"]

Init ==
    /\ memory = NewMachine.memory
    /\ registers = NewMachine.registers
    /\ stack = NewMachine.stack
    /\ current_address = NewMachine.current_address
    /\ output = <<>>
    /\ result = NoResult
    /\ pre = NewMachine
    /\ shell = "new"
    /\ target = 0
    /\ exit_code = <<>>

(***************************************************************************)
(* main: load_binary, then the command loop.                               *)
(***************************************************************************)
\* vm.load_binary(...).expect(...): a load that fails panics
LoadBinary(data) ==
    /\ shell = "new"
    /\ LET l == load_data(memory, data)
       IN  /\ memory' = l.memory
           /\ shell' = IF l.ok THEN "prompt" ELSE "aborted"
           /\ exit_code' = IF l.ok THEN <<>> ELSE <<101>>
    /\ UNCHANGED <<registers, stack, current_address, output, result, pre, target>>

\* a harness presets a register through CPU::write_register before the first step
WriteRegister(number, value) ==
    /\ shell = "prompt"
    /\ result.status = "None"
    /\ registers' = write_register(Machine, number, value).m.registers
    /\ UNCHANGED <<memory, stack, current_address, output, result, pre, shell,
                   target, exit_code>>

\* a single-step line: match vm.next_step() { Ok(true) => break,
\* Err(err) => exit(-1), _ => {} }
AfterLine(status) ==
    IF status \in {"Halted", "Error"} THEN "exited" ELSE "prompt"

\* run that takes one step only (`if let` for `while let`)
AfterRun_once(status) == "prompt"

\* VirtualMachine::run: while let Ok(to_stop) = self.next_step() { if to_stop { break } }
\* and main goes on with the next line
AfterRun(status) ==
    IF status = "Continue" THEN "run" ELSE "prompt"

\* run_until that never looks at the PC
AfterUntil_blind(status, pc) ==
    IF status = "Continue" THEN "until" ELSE "prompt"

\* VirtualMachine::run_until(pos): step while PC # pos and not halted, checked
\* after each step; main drops whatever run_until returns and goes on
AfterUntil(status, pc) ==
    IF status = "Continue" /\ pc # target THEN "until" ELSE "prompt"

\* where the command loop stands after a next_step issued by `by`
ShellAfter(by, status, pc) ==
    IF status = "Panic" THEN "aborted"
    ELSE IF by = "step" THEN AfterLine(status)
    ELSE IF by = "run" THEN AfterRun(status)
    ELSE AfterUntil(status, pc)

ExitAfter(by, status, pc) ==
    IF status = "Panic" THEN <<101>>
    ELSE IF ShellAfter(by, status, pc) = "exited"
    THEN (IF status = "Error" THEN <<-1>> ELSE <<0>>)
    ELSE <<>>

\* VirtualMachine::next_step, called for the command `by`
NextStep(by) ==
    /\ Len(stack) < MaxStack
    /\ Len(output) < MaxOut
    /\ \E r \in {execute(Machine)} :
           \E trap \in (IF r.overflow THEN BOOLEAN ELSE {FALSE}) :
             LET status == IF trap THEN "Panic" ELSE r.status
                 m == IF trap THEN Machine ELSE r.m
             IN  /\ memory' = m.memory
                 /\ registers' = m.registers
                 /\ stack' = m.stack
                 /\ current_address' = m.current_address
                 /\ output' = m.output
                 /\ result' = [status |-> status, err |-> r.err, src |-> r.src,
                               op_code |-> r.op_code, overflow |-> r.overflow,
                               by |-> by]
                 /\ pre' = Machine
                 /\ shell' = ShellAfter(by, status, m.current_address)
                 /\ exit_code' = ExitAfter(by, status, m.current_address)
                 /\ target' = IF ShellAfter(by, status, m.current_address) = "until"
                               THEN target ELSE 0

\* "exit" => break
CmdExit ==
    /\ shell = "prompt"
    /\ shell' = "exited"
    /\ exit_code' = <<0>>
    /\ UNCHANGED <<memory, registers, stack, current_address, output, result, pre, target>>

\* read_line fails: the while let loop ends and main returns
ReadLineFails ==
    /\ shell = "prompt"
    /\ shell' = "exited"
    /\ exit_code' = <<0>>
    /\ UNCHANGED <<memory, registers, stack, current_address, output, result, pre, target>>

\* "regs" => vm.dump_registry()
CmdRegs ==
    /\ shell = "prompt"
    /\ UNCHANGED vars

\* "where" => println!(vm.get_current_address())
CmdWhere ==
    /\ shell = "prompt"
    /\ UNCHANGED vars

\* "run" => vm.run()
CmdRun ==
    /\ shell = "prompt"
    /\ shell' = "run"
    /\ UNCHANGED <<memory, registers, stack, current_address, output, result, pre,
                   target, exit_code>>

\* "until <n>" or "until 0x<hex>" => vm.run_until(pos)
CmdUntil(pos) ==
    /\ shell = "prompt"
    /\ shell' = "until"
    /\ target' = pos
    /\ UNCHANGED <<memory, registers, stack, current_address, output, result, pre,
                   exit_code>>

\* "until xyz": eprintln!("Couldn't parse the command")
CmdUntilUnparsed ==
    /\ shell = "prompt"
    /\ UNCHANGED vars

\* any other line, the empty line of end of input included: vm.next_step()
\* a line of `run` or `until` in progress: the next iteration of its loop
Step ==
    \E by \in {"step", "run", "until"} :
        /\ shell = (IF by = "step" THEN "prompt" ELSE by)
        /\ NextStep(by)

\* main loads challenge.bin once, before the command loop
Load ==
    /\ shell = "new"
    /\ \E data \in Images : LoadBinary(data)

Next ==
    \/ Load
    \/ \E w \in SetupWrites : WriteRegister(w[1], w[2])
    \/ CmdExit
    \/ ReadLineFails
    \/ CmdRegs
    \/ CmdWhere
    \/ CmdRun
    \/ \E pos \in UntilTargets : CmdUntil(pos)
    \/ CmdUntilUnparsed
    \/ Step

Spec == Init /\ [][Next]_vars

(***************************************************************************)
(* Memory on its own, as the tests of mem.rs drive it: Memory::default(),  *)
(* cells written through write_memory, then load_data with word slices of  *)
(* every kind of length.  result and pre keep the last call of load_data:  *)
(* its slice, what it returned, and the memory it was called on.           *)
(***************************************************************************)
FullImage == [i \in 1 .. MAX_ADDRESS |-> IF i = MAX_ADDRESS THEN 9 ELSE 0]

LoadInputs ==
    {<<>>, <<5>>, <<0, 1, 2, 3>>, <<3, 2, 1>>, <<0, 0>>, FullImage, TooLarge}

MemoryWrites == {<<a, v>> : a \in {2, 4, 32767}, v \in {0, 7, 40000}}

\* mem.write_memory(address, value), before the first load_data
WriteMemory(address, value) ==
    /\ result.status = "None"
    /\ memory' = write_memory(memory, address, value).memory
    /\ UNCHANGED <<registers, stack, current_address, output, result, pre, shell,
                   target, exit_code>>

\* let res = mem.load_data(&data), once
LoadData(data) ==
    /\ result.status = "None"
    /\ \E l \in {load_data(memory, data)} :
           /\ memory' = l.memory
           /\ result' = [status |-> IF l.ok THEN "Loaded" ELSE "LoadFailed",
                         err |-> l.err, src |-> "load_data", op_code |-> -1,
                         overflow |-> FALSE, by |-> "load_data", data |-> data]
    /\ pre' = Machine
    /\ UNCHANGED <<registers, stack, current_address, output, shell, target,
                   exit_code>>

NextMemory ==
    \/ \E w \in MemoryWrites : WriteMemory(w[1], w[2])
    \/ \E data \in LoadInputs : LoadData(data)

SpecMemory == Init /\ [][NextMemory]_vars

(***************************************************************************)
(* The CPU on its own, as the tests of cpu.rs drive it: CPU::new over a    *)
(* Memory, optionally filled (load_data(&[3, 2, 1]), registers copied from *)
(* a slice), then one call of get_value_from_address or from_raw_to_u16    *)
(* with any 16-bit word.  result keeps the call: its name, its argument    *)
(* and what it returned; pre keeps the machine it was called on.           *)
(***************************************************************************)
Words == 0 .. U16Modulus - 1

PresetData == <<3, 2, 1>>
PresetRegisters == <<3, 4, 5, 0, 1234, 0, 32768, 65535>>

\* mem.load_data(&[3, 2, 1]); mem.write_memory(0x7FFF, 77);
\* cpu.registers.copy_from_slice(..)
Prepare ==
    /\ result.status = "None"
    /\ memory = EmptyMemory
    /\ memory' = write_memory(load_data(memory, PresetData).memory, 32767, 77).memory
    /\ registers' = [n \in 0 .. MAX_REGISTERS - 1 |-> PresetRegisters[n + 1]]
    /\ UNCHANGED <<stack, current_address, output, result, pre, shell, target,
                   exit_code>>

Returned(name, arg, value) ==
    [status |-> "Returned", err |-> value.err, src |-> "none", op_code |-> -1,
     overflow |-> FALSE, by |-> name, arg |-> arg, ret |-> value]

\* cpu.get_value_from_address(address): &self, the CPU is left as it is
GetValueFromAddress(address) ==
    /\ result.status = "None"
    /\ result' = Returned("get_value_from_address", address,
                          get_value_from_address(Machine, address))
    /\ pre' = Machine
    /\ UNCHANGED <<memory, registers, stack, current_address, output, shell,
                   target, exit_code>>

\* cpu.from_raw_to_u16(raw): &self, the CPU is left as it is
FromRawToU16(raw) ==
    /\ result.status = "None"
    /\ result' = Returned("from_raw_to_u16", raw, from_raw_to_u16(Machine, raw))
    /\ pre' = Machine
    /\ UNCHANGED <<memory, registers, stack, current_address, output, shell,
                   target, exit_code>>

\* one call, on a CPU that has not been called yet
Fetch ==
    /\ result.status = "None"
    /\ \E x \in Words : GetValueFromAddress(x)

Resolving ==
    /\ result.status = "None"
    /\ \E x \in Words : FromRawToU16(x)

StoredValues == {0, 16, 65535}

\* cpu.set_value_in_address(address, value)
SetValueInAddress(address, value) ==
    /\ result.status = "None"
    /\ \E w \in {set_value_in_address(Machine, address, value)} :
           /\ memory' = w.m.memory
           /\ registers' = w.m.registers
           /\ stack' = w.m.stack
           /\ current_address' = w.m.current_address
           /\ output' = w.m.output
           /\ result' = [value |-> value]
                         @@ Returned("set_value_in_address", address,
                                     [ok |-> w.ok, val |-> w.val, err |-> w.err])
    /\ pre' = Machine
    /\ UNCHANGED <<shell, target, exit_code>>

Storing ==
    /\ result.status = "None"
    /\ \E x \in Words : \E v \in StoredValues : SetValueInAddress(x, v)

NextAddress ==
    \/ Prepare
    \/ Fetch
    \/ Resolving
    \/ Storing

SpecAddress == Init /\ [][NextAddress]_vars

(***************************************************************************)
(* The arithmetic of add, mult and not on operand values of the whole u16  *)
(* range: the image is one instruction `op r0 r1 r2` (or the arithmetic    *)
(* program S6), registers 1 and 2 are preset through CPU::write_register   *)
(* with words below and above 0x8000, and the image is single-stepped.     *)
(***************************************************************************)
AluWords == {1, 2, 255, 32767, 32768, 40000, 65535}

AluImages == {<<op, 32768, 32769, 32770>> : op \in {9, 10, 14}} \cup {S6}

LoadAlu ==
    /\ shell = "new"
    /\ \E data \in AluImages : LoadBinary(data)

PresetOperand ==
    /\ shell = "prompt"
    /\ \E n \in {1, 2} : \E v \in AluWords : WriteRegister(n, v)

StepAlu ==
    /\ shell = "prompt"
    /\ NextStep("step")

NextAlu ==
    \/ LoadAlu
    \/ PresetOperand
    \/ StepAlu

SpecAlu == Init /\ [][NextAlu]_vars

(***************************************************************************)
(* The loader: VirtualMachine::get_binary_from_path turns the bytes of the *)
(* file into words with binary_to_memory, and load_binary loads them.      *)
(***************************************************************************)
\* binary.chunks(2): slices of two bytes, the last of one byte when the
\* length is odd
RECURSIVE chunks(_, _)
chunks(binary, size) ==
    IF Len(binary) = 0 THEN <<>>
    ELSE IF Len(binary) <= size THEN <<binary>>
    ELSE <<SubSeq(binary, 1, size)>> \o chunks(SubSeq(binary, size + 1, Len(binary)), size)

\* the bytes read in the other order
from_be_bytes(bytes) == 256 * bytes[1] + bytes[2]

\* u16::from_le_bytes
from_le_bytes(bytes) == bytes[1] + 256 * bytes[2]

binary_to_memory(binary) ==
    LET cs == chunks(binary, 2)
    IN  [i \in 1 .. Len(cs) |->
            from_le_bytes(<<cs[i][1], IF Len(cs[i]) = 2 THEN cs[i][2] ELSE 0>>)]

Bytes == {0, 1, 9, 128, 255}

RECURSIVE Files(_)
Files(len) ==
    IF len = 0 THEN {<<>>}
    ELSE Files(len - 1)
         \cup {Append(f, x) : f \in {g \in Files(len - 1) : Len(g) = len - 1},
                              x \in Bytes}

\* fs::read(path).and_then(|binary| Ok(binary_to_memory(&binary)))
GetBinaryFromPath(binary) ==
    /\ result' = [status |-> "Returned", err |-> NoError, src |-> "none",
                  op_code |-> -1, overflow |-> FALSE, by |-> "binary_to_memory",
                  arg |-> binary, ret |-> binary_to_memory(binary)]
    /\ pre' = Machine
    /\ UNCHANGED <<memory, registers, stack, current_address, output, shell,
                   target, exit_code>>

ReadFile ==
    /\ shell = "new"
    /\ result.status = "None"
    /\ \E binary \in Files(MaxBytes) : GetBinaryFromPath(binary)

\* vm.load_binary(|| ..): load_data of the words just converted
LoadConverted ==
    /\ shell = "new"
    /\ result.by = "binary_to_memory"
    /\ LoadBinary(result.ret)

NextLoader ==
    \/ ReadFile
    \/ LoadConverted

SpecLoader == Init /\ [][NextLoader]_vars

(***************************************************************************)
(* Vocabulary of the properties.  result and pre describe the last step:   *)
(* pre is the machine the step started from, Machine the one it left.      *)
(***************************************************************************)
Stepped == result.status # "None"

\* the opcode word of the last step could be fetched
Decoded == Stepped /\ result.src # "opcode"

\* the k-th operand word of the last step, as fetched before it ran
Operand(k) == get_value_from_address(pre, (pre.current_address + k) % U16Modulus)

\* resolve(raw) in the machine the last step started from
Resolve(raw) == from_raw_to_u16(pre, raw)

\* what the address-mapped space holds at raw_a after the last step
Stored(raw_a) == get_value_from_address(Machine, raw_a)

\* the last step changed no register, memory cell, stack entry nor the PC
CoreUnchanged ==
    /\ memory = pre.memory
    /\ registers = pre.registers
    /\ stack = pre.stack
    /\ current_address = pre.current_address

\* the opcodes whose first operand is a destination
DestinationOps == {1, 3, 4, 5, 9, 10, 11, 12, 13, 14, 15}

\* the number of operands of each opcode in the opcode table
OperandCount(op) ==
    IF op \in {2, 3, 6, 17, 19, 20} THEN 1
    ELSE IF op \in {1, 7, 8, 14, 15, 16} THEN 2
    ELSE IF op \in {4, 5, 9, 10, 11, 12, 13} THEN 3
    ELSE 0

\* the image the loader was given, when memory still is that image
Runs(image) == memory = load_data(EmptyMemory, image).memory

(***************************************************************************)
(* C1.  A step of an opcode that writes a destination operand a (set, pop, *)
(* eq, gt, add, mult, mod, and, or, not, rmem) whose raw a is a literal    *)
(* (< 0x8000) fails with an error and changes no register, memory cell,    *)
(* stack entry nor the PC.                                                 *)
(* The code does not do this: set_value_in_address writes memory[a].       *)
(***************************************************************************)
C1_LiteralDestinationFails ==
    (/\ Decoded
     /\ result.op_code \in DestinationOps
     /\ Operand(1).ok
     /\ Operand(1).val < 32768)
    => (result.status = "Error" /\ CoreUnchanged)

(***************************************************************************)
(* C2.  As claimed: in every state reached from the initial state with any *)
(* loaded image, every register and every memory cell is < 32768.          *)
(***************************************************************************)
C2_AllBelow32768 ==
    /\ \A n \in DOMAIN registers : registers[n] < 32768
    /\ \A a \in DOMAIN memory : memory[a] < 32768

(***************************************************************************)
(* C2, amended.  In every reachable state every register and every memory  *)
(* cell is a 16-bit word (< 65536), and the value a successful eq, gt,     *)
(* add, mult or not has just stored in its destination is < 32768.         *)
(***************************************************************************)
C2_WordsAndMaskedResults ==
    /\ \A n \in DOMAIN registers : registers[n] \in 0 .. 65535
    /\ \A a \in DOMAIN memory : a \in 0 .. 32767 /\ memory[a] \in 0 .. 65535
    /\ (result.status = "Continue" /\ result.op_code \in {4, 5, 9, 10, 14})
       => (Stored(Operand(1).val).ok /\ Stored(Operand(1).val).val < 32768)

\* an add whose sum had to be masked has run, and a cell holds a word >= 32768
C2_Witness ==
    /\ result.status = "Continue"
    /\ result.op_code = 9
    /\ Resolve(Operand(2).val).val + Resolve(Operand(3).val).val >= 32768
    /\ \E a \in DOMAIN memory : memory[a] >= 32768

(***************************************************************************)
(* C3.  mod (opcode 11) writes resolve(b) mod resolve(c) to its            *)
(* destination, taking a register's content for a register reference, and *)
(* advances the PC by 4.                                                   *)
(* The code does not do this: modulo divides the raw operand words.        *)
(***************************************************************************)
C3_ModResolvesOperands ==
    LET b == Resolve(Operand(2).val)
        c == Resolve(Operand(3).val)
    IN  (/\ result.status = "Continue" /\ result.op_code = 11
         /\ b.ok /\ c.ok /\ c.val # 0)
        => /\ Stored(Operand(1).val).val = b.val % c.val
           /\ current_address = pre.current_address + 4

(***************************************************************************)
(* C4.  out (opcode 19) emits exactly one byte, resolve(a) mod 256, and    *)
(* advances the PC by 2; the program 9 32768 32769 4 19 32768 0 started    *)
(* with r1 = 65 emits byte 69, halts, and leaves r0 = 69.                  *)
(* The code does not do this: out casts the raw operand word.              *)
(***************************************************************************)
C4_OutEmitsResolvedByte ==
    /\ (result.status = "Continue" /\ result.op_code = 19)
       => LET a == Resolve(Operand(1).val)
          IN  /\ a.ok
              /\ output = Append(pre.output, a.val % 256)
              /\ current_address = pre.current_address + 2
    /\ (Runs(S1) /\ result.status = "Halted" /\ registers[1] = 65)
       => (output = <<69>> /\ registers[0] = 69)

(***************************************************************************)
(* C5.  A step fails because of an operand fetch only if the decoded       *)
(* opcode has that operand: a failed fetch of PC+1, PC+2 or PC+3 that the  *)
(* opcode does not use never makes the step fail, and halt (0), ret (18)   *)
(* and noop (21) never fail once their opcode word is fetched, wherever    *)
(* they are located (at PC = 0x7FFF, or in the register space).            *)
(***************************************************************************)
C5_UnusedOperandsNeverFail ==
    /\ (result.status = "Error" /\ result.src \in {"a", "b", "c"})
       => \E k \in 1 .. OperandCount(result.op_code) : ~Operand(k).ok
    /\ (Decoded /\ result.op_code \in {0, 18, 21}) => result.status # "Error"

\* a noop has run although the word after it could not be fetched
C5_Witness ==
    /\ result.status = "Continue"
    /\ result.op_code = 21
    /\ ~Operand(1).ok

(***************************************************************************)
(* C6.  A step reports Halted exactly when the opcode at PC is 0 (halt) or *)
(* is 18 (ret) with an empty stack; ret on an empty stack is never an      *)
(* error; a step that halts leaves the PC alone and every other successful *)
(* step reports Continue with the PC set: advanced past the instruction,   *)
(* or, by jmp, jt, jf, call and ret, to the branch target.                 *)
(***************************************************************************)
C6_HaltedExactlyOnHaltOrEmptyRet ==
    Decoded =>
        /\ result.status = "Halted"
           <=> (result.op_code = 0 \/ (result.op_code = 18 /\ pre.stack = <<>>))
        /\ result.op_code = 18 => result.status # "Error"
        /\ result.status = "Halted" => current_address = pre.current_address
        /\ (result.status = "Continue" /\ result.op_code \notin {6, 7, 8, 17, 18})
           => current_address = pre.current_address + OperandCount(result.op_code) + 1
        /\ (result.status = "Continue" /\ result.op_code \in {6, 17})
           => current_address = Resolve(Operand(1).val).val
        /\ (result.status = "Continue" /\ result.op_code = 18)
           => current_address = pre.stack[Len(pre.stack)]

\* a ret on an empty stack has halted the machine
C6_Witness ==
    /\ result.status = "Halted"
    /\ result.op_code = 18
    /\ pre.stack = <<>>

(***************************************************************************)
(* C7.  A step whose opcode word is not one of 0..19 or 21 (opcode 20,     *)
(* `in`, and every word >= 22) fails with UnknownOpCode carrying that word *)
(* and the current PC and leaves PC, registers, stack and memory unchanged,*)
(* whether or not the trailing operand words can be fetched.               *)
(***************************************************************************)
C7_UnknownOpCodeFails ==
    (Decoded /\ result.op_code \notin (0 .. 19) \cup {21})
    => /\ result.status = "Error"
       /\ result.err = UnknownOpCode(result.op_code, pre.current_address)
       /\ CoreUnchanged

\* an unknown opcode whose trailing words cannot be fetched has been refused
C7_Witness ==
    /\ result.status = "Error"
    /\ result.err.kind = "UnknownOpCode"
    /\ ~Operand(1).ok

(***************************************************************************)
(* C8.  As claimed: pop (opcode 3) on an empty stack fails with            *)
(* PopFromEmptyStack and changes nothing; on a non-empty stack it removes  *)
(* the top element, writes it to destination a, and advances the PC by 2.  *)
(***************************************************************************)
C8_PopWritesTop ==
    (Decoded /\ result.op_code = 3 /\ Operand(1).ok)
    => IF pre.stack = <<>>
       THEN /\ result.status = "Error"
            /\ result.err = PopFromEmptyStack
            /\ Machine = pre
       ELSE /\ result.status = "Continue"
            /\ stack = SubSeq(pre.stack, 1, Len(pre.stack) - 1)
            /\ Stored(Operand(1).val).val = pre.stack[Len(pre.stack)]
            /\ current_address = pre.current_address + 2

(***************************************************************************)
(* C8, amended.  pop on an empty stack fails with PopFromEmptyStack and    *)
(* changes nothing; on a non-empty stack it removes the top element and,   *)
(* when raw a <= 0x8007, writes it to destination a and advances the PC by *)
(* 2; when raw a >= 0x8008 it fails with OverflowAddress(a): the top       *)
(* element is gone, PC, registers and memory are as before.                *)
(***************************************************************************)
C8_PopWritesTopOrOverflows ==
    (Decoded /\ result.op_code = 3 /\ Operand(1).ok)
    => IF pre.stack = <<>>
       THEN /\ result.status = "Error"
            /\ result.err = PopFromEmptyStack
            /\ Machine = pre
       ELSE /\ stack = SubSeq(pre.stack, 1, Len(pre.stack) - 1)
            /\ IF Operand(1).val <= 32775
               THEN /\ result.status = "Continue"
                    /\ Stored(Operand(1).val).val = pre.stack[Len(pre.stack)]
                    /\ current_address = pre.current_address + 2
               ELSE /\ result.status = "Error"
                    /\ result.err = OverflowAddress(Operand(1).val)
                    /\ current_address = pre.current_address
                    /\ registers = pre.registers
                    /\ memory = pre.memory

\* a pop has moved the top of a non-empty stack into a register
C8_Witness ==
    /\ result.status = "Continue"
    /\ result.op_code = 3
    /\ pre.stack # <<>>
    /\ Operand(1).val = 32768
    /\ registers[0] = pre.stack[Len(pre.stack)]

(***************************************************************************)
(* C9.  Every VM-level error is fatal in the driver: whenever a step       *)
(* returns an error, issued by a single-step line, by `run` or by `until`, *)
(* the shell executes no further instruction and the process terminates    *)
(* with a nonzero exit code.                                               *)
(* The code does not do this: run swallows the Err and main reads on.      *)
(***************************************************************************)
C9_ErrorsAreFatal ==
    result.status = "Error"
    => (shell = "exited" /\ exit_code # <<>> /\ exit_code # <<0>>)

(***************************************************************************)
(* C10.  Whenever a step reports Halted, under any shell command (single   *)
(* step, `run`, `until`), the shell loop ends and the process terminates   *)
(* with exit code 0 without reading further commands or executing further  *)
(* instructions.                                                           *)
(* The code does not do this: run returns to the command loop, which reads *)
(* the next line.                                                          *)
(***************************************************************************)
C10_HaltEndsTheShell ==
    result.status = "Halted" => (shell = "exited" /\ exit_code = <<0>>)

(***************************************************************************)
(* What the code does on a halt.  When a single-step line reports Halted   *)
(* the shell loop ends and the process terminates with exit code 0.  When  *)
(* a step of `run` or `until` reports Halted the command ends and the      *)
(* shell reads the next command; from then on every step reports Halted    *)
(* again and changes nothing, and the process can only terminate with exit *)
(* code 0.                                                                 *)
(***************************************************************************)
C10_HaltEndsTheLineOrTheCommand ==
    /\ [](result.status = "Halted" =>
            /\ result.by = "step" => (shell = "exited" /\ exit_code = <<0>>)
            /\ result.by \in {"run", "until"}
               => (shell \in {"prompt", "run", "until", "exited"}
                   /\ exit_code \in {<<>>, <<0>>}))
    /\ [][(result.status = "Halted" /\ result.by \in {"run", "until"}) =>
            /\ result'.status = "Halted"
            /\ Machine' = Machine
            /\ exit_code' \in {<<>>, <<0>>}]_vars

\* a halt met by `run` has left the shell at its prompt
C10_Witness ==
    /\ result.status = "Halted"
    /\ result.by = "run"
    /\ shell = "prompt"

(***************************************************************************)
(* C11.  run() executes steps one after another and returns right after    *)
(* the first step that reports Halted or Error: while run is in progress   *)
(* the only thing that happens is a step of run from the machine as it     *)
(* stands; after a step that reports Continue run is still in progress,    *)
(* after one that reports Halted or Error run has returned to the command  *)
(* loop, and no step is taken for run once it has returned.  On the image  *)
(* `jmp 0` run never returns.                                              *)
(***************************************************************************)
C11_RunStepsUntilHaltedOrError ==
    /\ [][(shell = "run" /\ vars' # vars) =>
            /\ result'.by = "run"
            /\ pre' = Machine
            /\ result'.status = "Continue" => shell' = "run"
            /\ result'.status \in {"Halted", "Error"} => shell' = "prompt"]_vars
    /\ [][(result'.by = "run" /\ <<result, pre>>' # <<result, pre>>)
            => shell = "run"]_vars
    /\ []((shell = "run" /\ Runs(<<6, 0>>) /\ current_address = 0)
            => [](shell = "run"))

\* run is still in progress after a `jmp 0` that it has executed
C11_Witness ==
    /\ Runs(<<6, 0>>)
    /\ result.by = "run"
    /\ result.status = "Continue"
    /\ result.op_code = 6
    /\ current_address = 0
    /\ shell = "run"

(***************************************************************************)
(* C12.  run_until(target) executes steps one after another and stops      *)
(* after the first step following which PC = target or which reports       *)
(* Halted or Error: while it is in progress the only thing that happens is *)
(* a step from the machine as it stands, and it is still in progress after *)
(* that step exactly when the step reported Continue and left PC # target. *)
(* The command takes no look at the PC before its first step: entering     *)
(* leaves the machine alone and run_until is in progress whatever the PC.  *)
(***************************************************************************)
C12_RunUntilStopsAtTarget ==
    /\ [][(shell = "until" /\ vars' # vars) =>
            /\ result'.by = "until"
            /\ pre' = Machine
            /\ target' \in {target, 0}
            /\ (result'.status = "Continue" /\ current_address' # target)
               => (shell' = "until" /\ target' = target)
            /\ (result'.status = "Continue" /\ current_address' = target)
               => shell' = "prompt"
            /\ result'.status \in {"Halted", "Error"} => shell' = "prompt"]_vars
    /\ [][(result'.by = "until" /\ <<result, pre>>' # <<result, pre>>)
            => shell = "until"]_vars
    /\ [][(shell = "prompt" /\ shell' = "until")
            => (Machine' = Machine /\ result' = result)]_vars

\* `until 2` given with PC = 2 has executed the instruction at 2 and goes on
C12_Witness ==
    /\ Runs(S2)
    /\ result.by = "until"
    /\ pre.current_address = 2
    /\ target = 2
    /\ current_address = 4
    /\ shell = "until"

(***************************************************************************)
(* C13.  load_data(src) fails with DataIsTooLarge(|src|) exactly when      *)
(* |src| > 32768 and then leaves every memory cell unchanged; otherwise it *)
(* succeeds, cell i equals src[i] for every i < |src|, and every cell      *)
(* i >= |src| keeps its prior value (0 after construction).                *)
(***************************************************************************)
C13_LoadDataReplacesThePrefix ==
    result.by = "load_data" =>
        LET src == result.data
        IN  IF Len(src) > 32768
            THEN /\ result.status = "LoadFailed"
                 /\ result.err = DataIsTooLarge(Len(src))
                 /\ memory = pre.memory
            ELSE /\ result.status = "Loaded"
                 /\ \A i \in 0 .. Len(src) - 1 : Cell(memory, i) = src[i + 1]
                 /\ \A i \in DOMAIN memory \cup DOMAIN pre.memory :
                        /\ i \in 0 .. 32767
                        /\ i >= Len(src) => Cell(memory, i) = Cell(pre.memory, i)

\* a slice has been loaded over a memory that held words under it and
\* behind it
C13_Witness ==
    /\ result.by = "load_data"
    /\ result.status = "Loaded"
    /\ result.data = <<0, 1, 2, 3>>
    /\ Cell(pre.memory, 2) = 7
    /\ Cell(pre.memory, 4) = 40000
    /\ Cell(memory, 2) = 2
    /\ Cell(memory, 4) = 40000

(***************************************************************************)
(* C14.  For every 16-bit word x: fetch(x) returns memory[x] when          *)
(* x <= 0x7FFF, registers[x - 0x8000] when 0x8000 <= x <= 0x8007, and      *)
(* fails with OverflowAddress(x) otherwise; resolve(x) returns x itself    *)
(* when x <= 0x7FFF, registers[x - 0x8000] when 0x8000 <= x <= 0x8007, and *)
(* fails with OverflowAddress(x) otherwise; neither changes any state.     *)
(***************************************************************************)
C14_FetchAndResolve ==
    LET x == result.arg
        reg == IF x \in 32768 .. 32775
               THEN Ok(pre.registers[x - 32768])
               ELSE Err(OverflowAddress(x))
    IN  /\ result.by = "get_value_from_address"
           => /\ result.ret = IF x <= 32767 THEN Ok(Cell(pre.memory, x)) ELSE reg
              /\ Machine = pre
        /\ result.by = "from_raw_to_u16"
           => /\ result.ret = IF x <= 32767 THEN Ok(x) ELSE reg
              /\ Machine = pre

\* resolve of the literal 0 has returned 0 although memory[0] holds 3
C14_Witness ==
    /\ result.by = "from_raw_to_u16"
    /\ result.arg = 0
    /\ result.ret = Ok(0)
    /\ Cell(memory, 0) = 3

(***************************************************************************)
(* C15.  call a at address p pushes p+2 onto the stack and sets PC to      *)
(* resolve(a), pushing nothing and changing nothing if resolve(a) fails; a *)
(* ret executed with an entry on top of the stack pops it and sets PC to   *)
(* it, so a ret that follows a call returns to p+2 and leaves the stack as *)
(* it was before the call; the program 17 5 19 33 0 19 72 18 emits bytes   *)
(* 72 then 33 and halts.                                                   *)
(***************************************************************************)
C15_CallAndRet ==
    /\ [](/\ (Decoded /\ result.op_code = 17 /\ Operand(1).ok)
             => LET a == Resolve(Operand(1).val)
                IN  IF a.ok
                    THEN /\ result.status = "Continue"
                         /\ stack = Append(pre.stack, pre.current_address + 2)
                         /\ current_address = a.val
                         /\ registers = pre.registers
                         /\ memory = pre.memory
                    ELSE /\ result.status = "Error"
                         /\ result.err = a.err
                         /\ CoreUnchanged
          /\ (Decoded /\ result.op_code = 18 /\ pre.stack # <<>>)
             => /\ result.status = "Continue"
                /\ current_address = pre.stack[Len(pre.stack)]
                /\ stack = SubSeq(pre.stack, 1, Len(pre.stack) - 1)
          /\ (Runs(S4) /\ result.status = "Halted")
             => (output = <<72, 33>> /\ current_address = 4 /\ stack = <<>>))
    /\ [][(/\ result.status = "Continue" /\ result.op_code = 17
           /\ result'.op_code = 18 /\ pre' = Machine)
          => /\ result'.status = "Continue"
             /\ stack' = pre.stack
             /\ current_address' = pre.current_address + 2]_vars

\* the program 17 5 19 33 0 19 72 18 has halted after its call and its ret
C15_Witness ==
    /\ Runs(S4)
    /\ result.status = "Halted"
    /\ result.op_code = 0
    /\ output = <<72, 33>>

(***************************************************************************)
(* C16.  As claimed: jt a b sets PC to resolve(b) when resolve(a) != 0 and *)
(* otherwise advances PC by 3; jf a b sets PC to resolve(b) when           *)
(* resolve(a) == 0 and otherwise advances PC by 3; for the same operands   *)
(* and state exactly one of jt and jf branches, and neither changes        *)
(* registers, memory or stack.                                             *)
(***************************************************************************)
C16_JumpIfTrueJumpIfFalse ==
    LET a == Resolve(Operand(1).val)
        b == Resolve(Operand(2).val)
        taken == IF result.op_code = 7 THEN a.val # 0 ELSE a.val = 0
    IN  (/\ Decoded /\ result.op_code \in {7, 8}
         /\ Operand(1).ok /\ Operand(2).ok /\ a.ok)
        => /\ result.status = "Continue"
           /\ current_address = IF taken THEN b.val ELSE pre.current_address + 3
           /\ (jt(pre, Operand(1).val, Operand(2).val).er.tag = "Jump")
              # (jf(pre, Operand(1).val, Operand(2).val).er.tag = "Jump")
           /\ registers = pre.registers
           /\ memory = pre.memory
           /\ stack = pre.stack

(***************************************************************************)
(* C16, amended.  jt a b and jf a b fail, changing nothing, when           *)
(* resolve(a) or resolve(b) fails (a raw operand >= 0x8008), whether or    *)
(* not the branch would be taken.  When both resolve, jt sets PC to        *)
(* resolve(b) when resolve(a) != 0 and otherwise advances PC by 3, jf sets *)
(* PC to resolve(b) when resolve(a) == 0 and otherwise advances PC by 3,   *)
(* and exactly one of jt and jf branches for the same operands and state.  *)
(* Neither changes registers, memory or stack.                             *)
(***************************************************************************)
C16_JumpsWhenBothResolve ==
    LET a == Resolve(Operand(1).val)
        b == Resolve(Operand(2).val)
        taken == IF result.op_code = 7 THEN a.val # 0 ELSE a.val = 0
    IN  (/\ Decoded /\ result.op_code \in {7, 8}
         /\ Operand(1).ok /\ Operand(2).ok)
        => /\ IF a.ok /\ b.ok
              THEN /\ result.status = "Continue"
                   /\ current_address =
                         IF taken THEN b.val ELSE pre.current_address + 3
                   /\ (jt(pre, Operand(1).val, Operand(2).val).er.tag = "Jump")
                      # (jf(pre, Operand(1).val, Operand(2).val).er.tag = "Jump")
              ELSE /\ result.status = "Error"
                   /\ result.err = IF a.ok THEN b.err ELSE a.err
                   /\ current_address = pre.current_address
           /\ registers = pre.registers
           /\ memory = pre.memory
           /\ stack = pre.stack

\* a jf whose first operand resolves to 0 has branched to resolve(b)
C16_Witness ==
    /\ result.status = "Continue"
    /\ result.op_code = 8
    /\ Resolve(Operand(1).val) = Ok(0)
    /\ Resolve(Operand(2).val).ok
    /\ current_address = Resolve(Operand(2).val).val
    /\ current_address # pre.current_address + 3

(***************************************************************************)
(* C17.  As claimed: running the program image 7 1 6 0 19 89 0 19 78 0     *)
(* from PC 0 until it halts emits exactly the byte 'Y' (89) when register  *)
(* 1 is initially 1, and exactly the byte 'N' (78) when register 1 is      *)
(* initially 0.  (The program writes no register: register 1 is at the     *)
(* halt what it was initially.)                                            *)
(***************************************************************************)
C17_BranchOnRegisterOne ==
    (Runs(S3) /\ result.status = "Halted")
    => /\ registers[1] = 1 => output = <<89>>
       /\ registers[1] = 0 => output = <<78>>

(***************************************************************************)
(* C17, amended.  Running the program image 7 1 6 0 19 89 0 19 78 0 from   *)
(* PC 0 until it halts emits no byte and halts at PC 6, whether register 1 *)
(* is initially 1 or 0: the first operand of its jt is the literal 1, not  *)
(* register 1 (32769), so jt always branches to 6, where a halt stands.    *)
(***************************************************************************)
C17_BranchOnLiteralOne ==
    (Runs(S3) /\ Stepped)
    => /\ result.status \in {"Continue", "Halted"}
       /\ output = <<>>
       /\ current_address = 6
       /\ registers = pre.registers
       /\ result.status = "Halted" => result.op_code = 0

\* the program has halted with register 1 = 1 and nothing emitted
C17_Witness ==
    /\ Runs(S3)
    /\ result.status = "Halted"
    /\ registers[1] = 1
    /\ output = <<>>

(***************************************************************************)
(* C18.  The stack is LIFO and push/pop are exact inverses: a push of x    *)
(* puts x on top of the stack and leaves what is under it; a pop that      *)
(* follows a push of x yields x and restores the stack to its contents and *)
(* length before the push; popping after pushes x1..xn returns xn..x1: the *)
(* program 2 10 2 20 2 30 3 32768 3 32769 3 32770 0 halts with r0 = 30,    *)
(* r1 = 20, r2 = 10 and an empty stack.                                    *)
(***************************************************************************)
C18_StackIsLifo ==
    /\ [](/\ (result.status = "Continue" /\ result.op_code = 2)
             => /\ Resolve(Operand(1).val).ok
                /\ stack = Append(pre.stack, Resolve(Operand(1).val).val)
          /\ (Runs(S5) /\ result.status = "Halted")
             => /\ registers[0] = 30
                /\ registers[1] = 20
                /\ registers[2] = 10
                /\ stack = <<>>)
    /\ [][(/\ result.status = "Continue" /\ result.op_code = 2
           /\ result'.op_code = 3 /\ pre' = Machine
           /\ result'.status = "Continue")
          => /\ stack' = pre.stack
             /\ Len(stack') = Len(stack) - 1
             /\ get_value_from_address(Machine',
                    get_value_from_address(Machine, current_address + 1).val)
                = Ok(Resolve(Operand(1).val).val)]_vars

\* the program of three pushes and three pops has halted
C18_Witness ==
    /\ Runs(S5)
    /\ result.status = "Halted"
    /\ registers[0] = 30
    /\ registers[2] = 10
    /\ stack = <<>>

\* b * c mod n by doubling, for the products that exceed 32 bits
RECURSIVE ProductMod(_, _, _)
ProductMod(b, c, n) ==
    IF c = 0 THEN 0
    ELSE (2 * ProductMod(b, c \div 2, n) + (c % 2) * b) % n

(***************************************************************************)
(* C19.  For all resolved operand values b, c in 0..65535, add writes      *)
(* (b + c) mod 32768, mult writes (b * c) mod 32768 and not writes         *)
(* 32767 - (b mod 32768); the program                                      *)
(* 9 32768 32767 1 10 32769 32767 32767 14 32770 0 0 halts with r0 = 0,    *)
(* r1 = 1, r2 = 32767.                                                     *)
(***************************************************************************)
C19_ArithmeticModulo32768 ==
    LET b == Resolve(Operand(2).val).val
        c == Resolve(Operand(3).val).val
        written == Stored(Operand(1).val)
    IN  /\ (result.status = "Continue" /\ result.op_code = 9)
           => written = Ok((b + c) % 32768)
        /\ (result.status = "Continue" /\ result.op_code = 10)
           => written = Ok(ProductMod(b, c, 32768))
        /\ (result.status = "Continue" /\ result.op_code = 14)
           => written = Ok(32767 - (b % 32768))
        /\ (Runs(S6) /\ result.status = "Halted")
           => (registers[0] = 0 /\ registers[1] = 1 /\ registers[2] = 32767)

\* mult of 65535 by 65535 has written 1
C19_Witness ==
    /\ result.status = "Continue"
    /\ result.op_code = 10
    /\ Resolve(Operand(2).val) = Ok(65535)
    /\ Resolve(Operand(3).val) = Ok(65535)
    /\ registers[0] = 1

(***************************************************************************)
(* C20.  binary_to_memory maps a byte sequence of length n to a word       *)
(* sequence of length ceil(n/2) in which word i equals                     *)
(* bytes[2i] + 256 * bytes[2i+1], with a missing final high byte (n odd)   *)
(* taken as 0; the empty byte sequence yields the empty word sequence.     *)
(***************************************************************************)
C20_BinaryToMemory ==
    result.by = "binary_to_memory" =>
        LET bytes == result.arg
            words == result.ret
            n == Len(bytes)
        IN  /\ Len(words) = (n \div 2) + (n % 2)
            /\ \A i \in 0 .. Len(words) - 1 :
                   words[i + 1] = bytes[2 * i + 1]
                                  + 256 * (IF 2 * i + 2 <= n THEN bytes[2 * i + 2] ELSE 0)
            /\ bytes = <<>> => words = <<>>
            /\ shell = "prompt"
               => \A i \in 0 .. Len(words) - 1 : Cell(memory, i) = words[i + 1]

\* three bytes have become two words, the last with a zero high byte, and
\* are loaded
C20_Witness ==
    /\ result.by = "binary_to_memory"
    /\ result.arg = <<0, 128, 9>>
    /\ result.ret = <<32768, 9>>
    /\ Cell(memory, 0) = 32768
    /\ Cell(memory, 1) = 9

(***************************************************************************)
(* C21.  After every successful step of a non-branching instruction with k *)
(* operands the PC equals its previous value plus k+1 (noop +1; push, pop, *)
(* out +2; set, not, rmem, wmem and untaken jt/jf +3; eq, gt, add, mult,   *)
(* mod, and, or +4); only jmp, taken jt/jf, call and ret with a non-empty  *)
(* stack set PC to another value, and halt leaves it unchanged.            *)
(***************************************************************************)
C21_ProgramCounterAdvance ==
    LET op == result.op_code
        a == Resolve(Operand(1).val)
        b == Resolve(Operand(2).val)
        taken == (op = 7 /\ a.val # 0) \/ (op = 8 /\ a.val = 0)
        size == IF op = 21 THEN 1
                ELSE IF op \in {2, 3, 19} THEN 2
                ELSE IF op \in {1, 14, 15, 16, 7, 8} THEN 3
                ELSE 4
    IN  /\ result.status = "Continue"
           => current_address =
                 IF op \in {6, 17} THEN a.val
                 ELSE IF op \in {7, 8} /\ taken THEN b.val
                 ELSE IF op = 18 THEN pre.stack[Len(pre.stack)]
                 ELSE pre.current_address + size
        /\ (result.status = "Continue" /\ op = 18) => pre.stack # <<>>
        /\ result.status = "Continue" => op \in (1 .. 19) \cup {21}
        /\ result.status = "Halted" => current_address = pre.current_address

\* a jt whose first operand resolves to 0 has advanced the PC by 3
C21_Witness ==
    /\ result.status = "Continue"
    /\ result.op_code = 7
    /\ Resolve(Operand(1).val) = Ok(0)
    /\ current_address = pre.current_address + 3

\* memory is the image with the word v stored at address a
Patched(image, a, v) == memory = PutCell(load_data(EmptyMemory, image).memory, a, v)

(***************************************************************************)
(* C22.  Every store is visible to the next fetch: after wmem writes value *)
(* v to address m the cell m holds v; a cell changes only by a step of an  *)
(* instruction that stores; every step decodes the opcode and the operands *)
(* that memory holds when the step starts, and rmem yields the word the    *)
(* cell holds then.  So an rmem of m after a wmem to m yields v, and       *)
(* self-modifying code executes the newly written word, not the originally *)
(* loaded one.                                                             *)
(***************************************************************************)
C22_StoresAreVisible ==
    /\ [](/\ (result.status = "Continue" /\ result.op_code = 16)
             => Stored(Resolve(Operand(1).val).val) = Ok(Resolve(Operand(2).val).val)
          /\ (Decoded /\ pre.current_address <= 32767)
             => result.op_code = Cell(pre.memory, pre.current_address)
          /\ (result.status = "Continue" /\ result.op_code = 15
              /\ Resolve(Operand(2).val).val <= 32767)
             => Stored(Operand(1).val) = Ok(Cell(pre.memory, Resolve(Operand(2).val).val))
          /\ (Patched(StoreThenLoad, 10, 77) /\ result.status = "Halted")
             => registers[0] = 77
          /\ (Patched(SelfModifying, 3, 0) /\ Stepped /\ pre.current_address = 3)
             => (result.status = "Halted" /\ result.op_code = 0)
          /\ (Patched(StoreThenOperand, 4, 72) /\ result.status = "Halted")
             => output = <<72>>)
    /\ [][(shell # "new" /\ memory' # memory)
          => /\ pre' = Machine
             /\ result'.status = "Continue"
             /\ result'.op_code \in DestinationOps \cup {16}]_vars

\* the halt that a wmem wrote over the noop at address 3 has been executed
C22_Witness ==
    /\ Patched(SelfModifying, 3, 0)
    /\ pre.current_address = 3
    /\ result.status = "Halted"
    /\ result.op_code = 0

(***************************************************************************)
(* C23.  store(addr, v) (set_value_in_address) with addr <= 0x7FFF         *)
(* replaces exactly memory[addr], with 0x8000 <= addr <= 0x8007 replaces   *)
(* exactly registers[addr - 0x8000], in both cases returns the value       *)
(* previously held there and leaves every other cell, register, the stack  *)
(* and the PC unchanged; with addr >= 0x8008 it fails with                 *)
(* OverflowAddress(addr) and changes nothing.                              *)
(***************************************************************************)
C23_StoreReplacesExactlyOne ==
    result.by = "set_value_in_address" =>
        LET addr == result.arg
            v == result.value
        IN  /\ stack = pre.stack
            /\ current_address = pre.current_address
            /\ output = pre.output
            /\ IF addr <= 32767
               THEN /\ result.ret = Ok(Cell(pre.memory, addr))
                    /\ \A a \in DOMAIN memory \cup DOMAIN pre.memory \cup {addr} :
                          Cell(memory, a) = IF a = addr THEN v ELSE Cell(pre.memory, a)
                    /\ registers = pre.registers
               ELSE IF addr <= 32775
               THEN /\ result.ret = Ok(pre.registers[addr - 32768])
                    /\ \A n \in 0 .. 7 :
                          registers[n] = IF n = addr - 32768 THEN v ELSE pre.registers[n]
                    /\ memory = pre.memory
               ELSE /\ result.ret = Err(OverflowAddress(addr))
                    /\ memory = pre.memory
                    /\ registers = pre.registers

\* the store of 16 to register 4 has returned the 1234 the register held
C23_Witness ==
    /\ result.by = "set_value_in_address"
    /\ result.arg = 32772
    /\ result.ret = Ok(1234)
    /\ registers[4] = 16
    /\ Cell(memory, 0) = 3

(***************************************************************************)
(* C24.  A mod instruction whose divisor is 0 does not complete normally:  *)
(* it aborts execution (host trap) without writing the destination,        *)
(* without advancing PC, and it never reports Continue or Halted.          *)
(* The code does this only when the raw operand word c is 0: modulo        *)
(* divides by the raw word, so a register that holds 0 is no divisor 0.    *)
(***************************************************************************)
C24_ModByZeroTraps ==
    (/\ Decoded /\ result.op_code = 11
     /\ Operand(1).ok /\ Operand(2).ok /\ Operand(3).ok
     /\ Resolve(Operand(2).val).ok
     /\ Resolve(Operand(3).val) = Ok(0))
    => /\ result.status = "Panic"
       /\ CoreUnchanged

(***************************************************************************)
(* C25.  Halting is stable: a step that reports Halted changes neither PC, *)
(* registers, stack nor memory, so every later step from that state        *)
(* reports Halted again and the state never changes afterwards.            *)
(***************************************************************************)
C25_HaltingIsStable ==
    /\ [](result.status = "Halted" => (CoreUnchanged /\ output = pre.output))
    /\ [][result.status = "Halted"
          => (result'.status = "Halted" /\ Machine' = Machine)]_vars

\* a ret on an empty stack met by `until` has halted and changed nothing
C25_Witness ==
    /\ result.status = "Halted"
    /\ result.op_code = 18
    /\ result.by = "until"
    /\ Machine = pre
    /\ shell = "prompt"

(***************************************************************************)
(* C26.  Whenever a step returns an error (OverflowAddress,                *)
(* OverflowRegister, PopFromEmptyStack or UnknownOpCode), the PC, all      *)
(* eight registers and every memory cell have the values they had before   *)
(* the step.                                                               *)
(***************************************************************************)
C26_ErrorsKeepPcRegistersMemory ==
    result.status = "Error"
    => /\ result.err.kind \in {"OverflowAddress", "OverflowRegister",
                               "PopFromEmptyStack", "UnknownOpCode"}
       /\ current_address = pre.current_address
       /\ \A n \in 0 .. 7 : registers[n] = pre.registers[n]
       /\ memory = pre.memory

\* a wmem whose value operand cannot be resolved has failed and stored nothing
C26_Witness ==
    /\ result.status = "Error"
    /\ result.op_code = 16
    /\ result.src = "handler"
    /\ Resolve(Operand(1).val).ok
    /\ ~Resolve(Operand(2).val).ok
    /\ memory = pre.memory

(***************************************************************************)
(* C27.  Whenever a step returns an error, the stack has the same contents *)
(* and length as before the step; in particular a pop whose destination    *)
(* operand is invalid (raw a >= 0x8008) and a push or call whose operand   *)
(* cannot be resolved leave the stack untouched.                           *)
(* The code does not do this: pop removes the top element before it writes *)
(* the destination.                                                        *)
(***************************************************************************)
C27_ErrorsKeepTheStack ==
    result.status = "Error" => stack = pre.stack

(***************************************************************************)
(* C28.  No 16-bit program-counter arithmetic overflows in any reachable   *)
(* state: a step with PC >= 0x8008 fails with OverflowAddress(PC) at the   *)
(* opcode fetch before any addition, so the operand addresses PC+1, PC+2,  *)
(* PC+3, the advance PC+size and the return address PC+2 pushed by call    *)
(* are only computed with PC <= 0x8007 and never exceed 0xFFFF, even after *)
(* a jump, ret or non-branching advance has moved PC above 0x7FFF.         *)
(***************************************************************************)
C28_NoProgramCounterOverflow ==
    /\ Stepped => ~result.overflow
    /\ (Stepped /\ pre.current_address >= 32776)
       => /\ result.status = "Error"
          /\ result.src = "opcode"
          /\ result.err = OverflowAddress(pre.current_address)
          /\ Machine = pre
    /\ Decoded => pre.current_address + 3 <= 65535
    /\ result.status = "Continue" => current_address <= 65535
    /\ (result.status = "Continue" /\ result.op_code = 17)
       => stack[Len(stack)] = pre.current_address + 2
    /\ result.status = "Panic" => result.op_code = 11

\* a step with PC = 65535, where a jmp had moved it, has failed at the
\* opcode fetch
C28_Witness ==
    /\ Stepped
    /\ pre.current_address = 65535
    /\ result.status = "Error"
    /\ result.src = "opcode"
    /\ result.err = OverflowAddress(65535)

====
